---- MODULE Spec2Model ----
(***************************************************************************)
(* Yasno power-outage calendar: the schedule extractor, the interval       *)
(* builder of YasnoDataUpdateCoordinator and the state/query properties of *)
(* YasnoOutagesCalendar (custom_components/yasno_outages/calendar.py).     *)
(***************************************************************************)
EXTENDS Integers, Sequences, FiniteSets, TLC

VARIABLES
    exData,          \* _extract_schedule: the document argument
    exTarget,        \* _extract_schedule: the key argument
    exResult,        \* _extract_schedule: the returned value
    fhHours,         \* _format_hours: the argument
    fhResult,        \* _format_hours: the returned text or the exception raised
    response,        \* _async_update_data: the document response.json() gave
    updated,         \* _async_update_data: the events returned or the exception raised
    coordinatorData, \* coordinator.data["events"]
    now,             \* datetime.now(Europe/Kiev), minutes since 01.11.2026 00:00
    internal_state,  \* YasnoOutagesCalendar._internal_state
    lastRead,        \* what the last read of the entity returned
    pc               \* position of the operation under check

extractVars == <<exData, exTarget, exResult>>
formatVars == <<fhHours, fhResult>>
buildVars == <<response, updated>>
entityVars == <<coordinatorData, now, internal_state, lastRead>>
vars == <<exData, exTarget, exResult, fhHours, fhResult, response, updated,
          coordinatorData, now, internal_state, lastRead, pc>>

ExtractIdle == exData = [t |-> "null"] /\ exTarget = "" /\ exResult = [t |-> "null"]
FormatIdle == fhHours = [t |-> "null"] /\ fhResult = [exc |-> "none"]
EntityIdle ==
    /\ coordinatorData = <<>>
    /\ now = 0
    /\ internal_state = "no_schedule"
    /\ lastRead = [op |-> "none"]
BuildIdle == response = [t |-> "null"] /\ updated = [exc |-> "none", events |-> <<>>, decoded |-> <<>>]

(***************************************************************************)
(* JSON values as Python holds them after response.json(): dict (insertion *)
(* ordered), list, number, str, None.                                      *)
(***************************************************************************)
None == [t |-> "null"]
Num(h, m) == [t |-> "num", h |-> h, m |-> m]      \* the number h + m/60
Str(s) == [t |-> "str", s |-> s]
Obj(kv) == [t |-> "obj", kv |-> kv]               \* kv: sequence of <<key, value>>
Arr(items) == [t |-> "arr", items |-> items]

IsDict(v) == v.t = "obj"
IsList(v) == v.t = "arr"

\* key in dict
HasKey(d, k) == \E i \in 1..Len(d.kv) : d.kv[i][1] = k

\* dict[key], for a key the dict has
GetItem(d, k) == d.kv[CHOOSE i \in 1..Len(d.kv) : d.kv[i][1] = k][2]

\* list(dict.values())
Values(d) == [i \in 1..Len(d.kv) |-> d.kv[i][2]]

\* Python truth value of a JSON value: None, 0, "", [] and {} are false
Truthy(v) ==
    CASE v.t = "null" -> FALSE
      [] v.t = "num" -> ~(v.h = 0 /\ v.m = 0)
      [] v.t = "str" -> v.s # ""
      [] v.t = "obj" -> Len(v.kv) > 0
      [] v.t = "arr" -> Len(v.items) > 0

RECURSIVE extract_schedule(_, _)
RECURSIVE ExtractFirst(_, _, _)

\* the two for-loops of _extract_schedule: the first truthy recursive result
ExtractFirst(children, i, target) ==
    IF i > Len(children) THEN None
    ELSE LET result == extract_schedule(children[i], target)
         IN  IF Truthy(result) THEN result
             ELSE ExtractFirst(children, i + 1, target)

extract_schedule(data, target) ==
    IF IsDict(data) THEN
        IF HasKey(data, target) THEN GetItem(data, target)
        ELSE ExtractFirst(Values(data), 1, target)
    ELSE IF IsList(data) THEN ExtractFirst(data.items, 1, target)
    ELSE None

(***************************************************************************)
(* Documents the extractor is run on: every tree of at most MaxDepth       *)
(* container levels and MaxWidth children over the keys and scalars below. *)
(***************************************************************************)
MaxWidth == 2
MaxDepth == 2

ExKeys == {"k", "a"}
ExLeaves == {None, Num(0, 0), Num(1, 0), Obj(<<>>), Arr(<<>>)}

SeqsUpTo(S, n) == UNION {[1..k -> S] : k \in 1..n}

ObjectsOver(S) ==
    {Obj([i \in 1..Len(ks) |-> <<ks[i], vs[i]>>]) :
        <<ks, vs>> \in {p \in SeqsUpTo(ExKeys, MaxWidth) \X SeqsUpTo(S, MaxWidth) :
                          /\ Len(p[1]) = Len(p[2])
                          /\ \A i, j \in 1..Len(p[1]) : i # j => p[1][i] # p[1][j]}}

ArraysOver(S) == {Arr(items) : items \in SeqsUpTo(S, MaxWidth)}

RECURSIVE Trees(_)
Trees(depth) ==
    IF depth = 0 THEN ExLeaves
    ELSE LET below == Trees(depth - 1)
         IN  below \cup ObjectsOver(below) \cup ArraysOver(below)

ExDocs == Trees(MaxDepth)

InitExtract ==
    /\ exData \in ExDocs
    /\ exTarget = "k"
    /\ exResult = None
    /\ FormatIdle
    /\ BuildIdle
    /\ EntityIdle
    /\ pc = "call"

ExtractCall ==
    /\ pc = "call"
    /\ exResult' = extract_schedule(exData, exTarget)
    /\ pc' = "returned"
    /\ UNCHANGED <<exData, exTarget, formatVars, buildVars, entityVars>>

NextExtract == ExtractCall

SpecExtract == InitExtract /\ [][NextExtract]_vars

(***************************************************************************)
(* The objects of a document in depth-first, parent-before-children,       *)
(* sibling order.                                                          *)
(***************************************************************************)
RECURSIVE ObjectsPreorder(_)
RECURSIVE ObjectsOfChildren(_, _)

ObjectsOfChildren(children, i) ==
    IF i > Len(children) THEN <<>>
    ELSE ObjectsPreorder(children[i]) \o ObjectsOfChildren(children, i + 1)

ObjectsPreorder(v) ==
    IF IsDict(v) THEN <<v>> \o ObjectsOfChildren(Values(v), 1)
    ELSE IF IsList(v) THEN ObjectsOfChildren(v.items, 1)
    ELSE <<>>

ObjectsWithKey(v, k) == SelectSeq(ObjectsPreorder(v), LAMBDA o : HasKey(o, k))

\* C1: the extractor returns the value bound to the key in the first object,
\* in depth-first parent-before-children sibling order, that contains the key,
\* whatever that value is, and None when no object of the document contains it.
C1_FirstMatchReturned ==
    pc = "returned" =>
        LET hits == ObjectsWithKey(exData, exTarget)
        IN  IF Len(hits) = 0 THEN exResult = None
            ELSE exResult = GetItem(hits[1], exTarget)

(***************************************************************************)
(* _format_hours on IEEE-754 doubles.  Num(h, m) is the double nearest to  *)
(* h + m/60, with 0 <= m < 60.  Its spacing (ulp) is 2^-UlpShift, so it is *)
(* h plus the integer nearest to m * 2^UlpShift / 60 ulps; that quotient   *)
(* is m * 2^(UlpShift-2) / 15, and 2^4 = 1 (mod 15), which gives the       *)
(* remainder, hence the rounding error, in small numbers.                  *)
(***************************************************************************)
RECURSIVE Log2Floor(_)
Log2Floor(n) == IF n < 2 THEN 0 ELSE 1 + Log2Floor(n \div 2)

RECURSIVE Pow2(_)
Pow2(e) == IF e = 0 THEN 1 ELSE 2 * Pow2(e - 1)

\* floor(log2(h + m/60)), for a value above 0
BinaryExponent(h, m) ==
    IF h >= 1 THEN Log2Floor(h)
    ELSE 0 - (CHOOSE k \in 1..6 : m * Pow2(k) >= 60 /\ m * Pow2(k - 1) < 60)

UlpShift(h, m) == 52 - BinaryExponent(h, m)

\* fifteenths of an ulp by which the double differs from h + m/60 (round to nearest)
RoundingError15(h, m) ==
    LET r == (m * Pow2((UlpShift(h, m) - 2) % 4)) % 15
    IN  IF 2 * r < 15 THEN 0 - r ELSE 15 - r

\* (hours - whole_hours) is exact; times 60 the exact product is
\* m + RoundingError15 * 2^(2 - UlpShift), rounded to the nearest double. The
\* doubles just below m are 2^(jp - 52) apart, jp = floor(log2) of them; the
\* product rounds to a double below m iff it is more than half that below m.
ProductBelow(h, m) ==
    LET dn == RoundingError15(h, m)
        jp == IF m >= 2 THEN Log2Floor(m - 1) ELSE 0 - 1
        e == 3 + BinaryExponent(h, m) - jp
    IN  /\ dn < 0
        /\ IF e >= 0 THEN (0 - dn) * Pow2(e) > 1 ELSE (0 - dn) > Pow2(0 - e)

\* int((hours - whole_hours) * 60): truncation toward zero
TruncatedMinutes(h, m) ==
    IF m = 0 THEN 0
    ELSE IF ProductBelow(h, m) THEN m - 1 ELSE m

\* str values int() accepts
IntLiterals == {"12"}

\* the text "HH:MM" is held as its two fields; both are printed with at least
\* two digits, so a field above 99 or below 0 prints as it is
format_hours(hours) ==
    CASE hours.t = "num" ->
            [exc |-> "none",
             val |-> [hh |-> hours.h, mm |-> TruncatedMinutes(hours.h, hours.m)]]
      [] hours.t = "str" ->
            IF hours.s \in IntLiterals THEN [exc |-> "TypeError"]
            ELSE [exc |-> "ValueError"]
      [] OTHER -> [exc |-> "TypeError"]

InitFormat ==
    /\ fhHours \in {Num(h, m) : h \in 0..23, m \in 0..59}
    /\ fhResult = [exc |-> "none"]
    /\ ExtractIdle
    /\ BuildIdle
    /\ EntityIdle
    /\ pc = "call"

FormatCall ==
    /\ pc = "call"
    /\ fhResult' = format_hours(fhHours)
    /\ pc' = "returned"
    /\ UNCHANGED <<fhHours, extractVars, buildVars, entityVars>>

NextFormat == FormatCall

SpecFormat == InitFormat /\ [][NextFormat]_vars

\* C9: for every integer H in 0..23 and M in 0..59 the value H + M/60 is
\* decoded to hour H and minute M exactly (never M-1, never 60); 13.5 gives
\* 13:30, 0.0 gives 00:00 and 23.75 gives 23:45.
C9_DecodeRoundTrips ==
    pc = "returned" =>
        /\ fhResult.exc = "none"
        /\ fhResult.val.hh = fhHours.h
        /\ fhResult.val.mm = fhHours.m

(***************************************************************************)
(* The Python operations _async_update_data applies to JSON values. Each   *)
(* gives [exc |-> "none", val |-> result] or [exc |-> the exception].      *)
(***************************************************************************)
Ok(v) == [exc |-> "none", val |-> v]
Raise(e) == [exc |-> e]

\* a in b for two str values; no string of the model lies inside another one
Substring(a, b) == a = b

\* key in container
PyIn(key, c) ==
    CASE c.t = "obj" -> Ok(HasKey(c, key))
      [] c.t = "arr" -> Ok(\E i \in 1..Len(c.items) : c.items[i] = Str(key))
      [] c.t = "str" -> Ok(Substring(key, c.s))
      [] OTHER -> Raise("TypeError")

\* container[key] for a str key
PyGetItem(c, key) ==
    IF c.t = "obj" THEN (IF HasKey(c, key) THEN Ok(GetItem(c, key)) ELSE Raise("KeyError"))
    ELSE Raise("TypeError")

\* container.values()
PyValues(c) == IF c.t = "obj" THEN Ok(Values(c)) ELSE Raise("AttributeError")

\* container.get(key, default)
PyGet(c, key, default) ==
    IF c.t = "obj" THEN Ok(IF HasKey(c, key) THEN GetItem(c, key) ELSE default)
    ELSE Raise("AttributeError")

\* the items a for-loop over the value visits: a dict gives its keys, a str
\* its characters (the first one stands for all: indexing it raises)
PyIter(c) ==
    CASE c.t = "arr" -> Ok(c.items)
      [] c.t = "obj" -> Ok([i \in 1..Len(c.kv) |-> Str(c.kv[i][1])])
      [] c.t = "str" -> Ok(IF c.s = "" THEN <<>> ELSE <<Str("c")>>)
      [] OTHER -> Raise("TypeError")

(***************************************************************************)
(* Titles and dates. ' na ' stands for the separator of the titles; the    *)
(* date token is the text before its first occurrence, the whole title     *)
(* when it does not occur.                                                 *)
(***************************************************************************)
TitleDay0 == "01.11.2026 na 00:00"
TitleDay1 == "02.11.2026 na 00:00"
TitleBad == "zavtra"

\* title.split(' na ')[0]
SplitTitle(title) ==
    IF title.t # "str" THEN Raise("AttributeError")
    ELSE Ok(CASE title.s = TitleDay0 -> "01.11.2026"
              [] title.s = TitleDay1 -> "02.11.2026"
              [] OTHER -> title.s)

MinutesPerDay == 24 * 60

\* datetime.strptime(date_str + " " + HH:MM, "%d.%m.%Y %H:%M"): minutes since
\* 01.11.2026 00:00 local time, ValueError when the text does not match
strptime(date_str, hm) ==
    IF date_str \notin {"01.11.2026", "02.11.2026"} THEN Raise("ValueError")
    ELSE IF hm.hh \notin 0..23 \/ hm.mm \notin 0..59 THEN Raise("ValueError")
    ELSE Ok((IF date_str = "01.11.2026" THEN 0 ELSE MinutesPerDay) + hm.hh * 60 + hm.mm)

CalendarEvent(start, end) == [start |-> start, end |-> end]

\* the overlap test with the boundaries left out
OverlapsExistingStrict(e, start_time, end_time) ==
    \/ (e.start < start_time /\ start_time < e.end)
    \/ (e.start < end_time /\ end_time < e.end)
    \/ (start_time <= e.start /\ end_time >= e.end)

\* the overlap test of the generator in `if not any(...)`
OverlapsExisting(e, start_time, end_time) ==
    \/ (e.start <= start_time /\ start_time <= e.end)
    \/ (e.start <= end_time /\ end_time <= e.end)
    \/ (start_time <= e.start /\ end_time >= e.end)

\* an exception leaves the statement: r is the outcome of an expression, K
\* what follows with its value; events and decoded are carried out as they are
OnValue(r, events, decoded, K(_)) ==
    IF r.exc # "none" THEN [exc |-> r.exc, events |-> events, decoded |-> decoded]
    ELSE K(r.val)

\* r is the outcome [exc, events, decoded] of a loop body, K the next round
OnDone(r, K(_)) == IF r.exc # "none" THEN r ELSE K(r)

Done(events, decoded) == [exc |-> "none", events |-> events, decoded |-> decoded]

\* `if not any(...): events.append(CalendarEvent(...))`. decoded is a history
\* of the build, not a value of the program: the periods both of whose bounds
\* were decoded so far, in the order met, accepted or not
AppendUnlessOverlap(events, decoded, start_time, end_time) ==
    IF \E i \in 1..Len(events) : OverlapsExisting(events[i], start_time, end_time)
    THEN Done(events, Append(decoded, CalendarEvent(start_time, end_time)))
    ELSE Done(Append(events, CalendarEvent(start_time, end_time)),
              Append(decoded, CalendarEvent(start_time, end_time)))

\* the body of `for period in ...`: [exc, events, decoded]
AddPeriod(events, decoded, date_str, period) ==
    OnValue(PyGetItem(period, "start"), events, decoded, LAMBDA start :
    OnValue(format_hours(start), events, decoded, LAMBDA start_hours :
    OnValue(PyGetItem(period, "end"), events, decoded, LAMBDA end :
    OnValue(format_hours(end), events, decoded, LAMBDA end_hours :
    OnValue(strptime(date_str, start_hours), events, decoded, LAMBDA start_time :
    OnValue(strptime(date_str, end_hours), events, decoded, LAMBDA end_time :
        AppendUnlessOverlap(events, decoded, start_time, end_time)))))))

RECURSIVE ProcessPeriods(_, _, _, _, _)
ProcessPeriods(events, decoded, date_str, periods, i) ==
    IF i > Len(periods) THEN Done(events, decoded)
    ELSE OnDone(AddPeriod(events, decoded, date_str, periods[i]), LAMBDA r :
            ProcessPeriods(r.events, r.decoded, date_str, periods, i + 1))

\* the two except clauses: ValueError and KeyError end the day, nothing else
Caught(r) ==
    IF r.exc \in {"ValueError", "KeyError"} THEN Done(r.events, r.decoded)
    ELSE r

\* the try block of one day
TryDay(events, decoded, day_data, group) ==
    OnValue(PyGetItem(day_data, "title"), events, decoded, LAMBDA title :
    OnValue(SplitTitle(title), events, decoded, LAMBDA date_str :
    OnValue(PyGetItem(day_data, "groups"), events, decoded, LAMBDA groups :
    OnValue(PyGetItem(groups, group), events, decoded, LAMBDA listed :
    OnValue(PyIter(listed), events, decoded, LAMBDA periods :
        ProcessPeriods(events, decoded, date_str, periods, 1))))))

\* the body of `for day_data in city_data.values()`
ProcessDay(events, decoded, day_data, group) ==
    OnValue(PyGet(day_data, "groups", Obj(<<>>)), events, decoded, LAMBDA groups :
    OnValue(PyIn(group, groups), events, decoded, LAMBDA listed :
        IF ~listed THEN Done(events, decoded)
        ELSE Caught(TryDay(events, decoded, day_data, group))))

RECURSIVE ProcessDays(_, _, _, _, _)
ProcessDays(events, decoded, days, i, group) ==
    IF i > Len(days) THEN Done(events, decoded)
    ELSE OnDone(ProcessDay(events, decoded, days[i], group), LAMBDA r :
            ProcessDays(r.events, r.decoded, days, i + 1, group))

\* `if schedule and self.city in schedule:` and what it guards
ProcessFound(events, decoded, schedule, city, group) ==
    IF ~Truthy(schedule) THEN Done(events, decoded)
    ELSE OnValue(PyIn(city, schedule), events, decoded, LAMBDA hasCity :
            IF ~hasCity THEN Done(events, decoded)
            ELSE OnValue(PyGetItem(schedule, city), events, decoded, LAMBDA city_data :
                 OnValue(PyValues(city_data), events, decoded, LAMBDA days :
                    ProcessDays(events, decoded, days, 1, group))))

\* the body of `for schedule_type in [...]`
ProcessSchedule(events, decoded, data, schedule_type, city, group) ==
    ProcessFound(events, decoded, extract_schedule(data, schedule_type), city, group)

\* sorted(events, key=lambda x: x.start): stable insertion by start
RECURSIVE InsertByStart(_, _)
InsertByStart(sorted, e) ==
    IF sorted = <<>> THEN <<e>>
    ELSE IF sorted[Len(sorted)].start <= e.start THEN Append(sorted, e)
    ELSE Append(InsertByStart(SubSeq(sorted, 1, Len(sorted) - 1), e), sorted[Len(sorted)])

\* the events returned in the order accumulated
Unsorted(events) == events

RECURSIVE SortedByStart(_)
SortedByStart(events) ==
    IF events = <<>> THEN <<>>
    ELSE InsertByStart(SortedByStart(SubSeq(events, 1, Len(events) - 1)), events[Len(events)])

\* the events accumulated by the two passes, before the sort
AccumulateEvents(data, city, group) ==
    OnDone(ProcessSchedule(<<>>, <<>>, data, "dailySchedule", city, group), LAMBDA r :
        ProcessSchedule(r.events, r.decoded, data, "tomorrowSchedule", city, group))

\* `return {"events": sorted(...)}`, reached when nothing was raised
ReturnSorted(acc) ==
    IF acc.exc # "none" THEN [exc |-> acc.exc, events |-> <<>>, decoded |-> acc.decoded]
    ELSE Done(SortedByStart(acc.events), acc.decoded)

\* _async_update_data after the fetch: [exc, events, decoded]
async_update_data(data, city, group) == ReturnSorted(AccumulateEvents(data, city, group))

(***************************************************************************)
(* The documents a build pass is run on. The configured city and group are *)
(* "kiev" and "1". A document lists three days: dailySchedule today        *)
(* (01.11) and tomorrow (02.11) and tomorrowSchedule today (02.11 again, a *)
(* date both schedules report). At most MaxPeriods periods are spread over *)
(* the three days, in every order.                                         *)
(***************************************************************************)
City == "kiev"
Group == "1"

MaxPeriods == 3

Period(start, end) == Obj(<< <<"start", start>>, <<"end", end>> >>)

PeriodAlphabet ==
    { Period(Num(10, 0), Num(12, 0)),
      Period(Num(11, 0), Num(13, 0)),
      Period(Num(10, 0), Num(11, 0)),
      Period(Num(12, 0), Num(13, 0)),
      Period(Num(11, 0), Num(11, 0)),               \* zero length
      Period(Num(12, 0), Num(10, 0)),               \* end before start
      Period(Num(13, 0), Num(24, 0)),               \* until midnight
      Obj(<< <<"end", Num(12, 0)>> >>),             \* no start
      Period(None, Num(12, 0)) }                    \* start is null

\* one day entry; kind tells what its title, or its group mapping, is like
Day(kind, title, periods) ==
    CASE kind = "plain" ->
            Obj(<< <<"title", Str(title)>>,
                   <<"groups", Obj(<< <<Group, Arr(periods)>>, <<"2", Arr(<<>>)>> >>)>> >>)
      [] kind = "untitled" ->
            Obj(<< <<"groups", Obj(<< <<Group, Arr(periods)>> >>)>> >>)
      [] kind = "othergroup" ->
            Obj(<< <<"title", Str(title)>>,
                   <<"groups", Obj(<< <<"2", Arr(periods)>> >>)>> >>)
      [] kind = "nogroups" ->
            Obj(<< <<"title", Str(title)>> >>)
      [] kind = "numtitle" ->
            Obj(<< <<"title", Num(1, 0)>>,
                   <<"groups", Obj(<< <<Group, Arr(periods)>> >>)>> >>)
      [] kind = "numgroups" ->
            Obj(<< <<"title", Str(title)>>, <<"groups", Num(1, 0)>> >>)
      [] kind = "numperiods" ->
            Obj(<< <<"title", Str(title)>>,
                   <<"groups", Obj(<< <<Group, Num(1, 0)>> >>)>> >>)
      [] kind = "strperiod" ->
            Obj(<< <<"title", Str(title)>>,
                   <<"groups", Obj(<< <<Group, Arr(<<Str("x")>>)>> >>)>> >>)
      [] kind = "text" -> Str("x")

\* the document around the two schedules, as the API nests them
Document(daily, tomorrow) ==
    Obj(<< <<"components",
             Arr(<< Obj(<< <<"template_name", Str("schedule")>>,
                           <<"dailySchedule", daily>>,
                           <<"tomorrowSchedule", tomorrow>> >>) >>)>> >>)

Schedule(days) == Obj(<< <<City, Obj(days)>>, <<"dnipro", Obj(<<>>)>> >>)

ThreeDays(d1, d2, d3) ==
    Document(Schedule(<< <<"today", d1>>, <<"tomorrow", d2>> >>),
             Schedule(<< <<"today", d3>> >>))

PeriodLists(n) == {<<>>} \cup SeqsUpTo(PeriodAlphabet, n)

\* the periods ps cut into three days after positions c1 and c2
Spread(kinds, titles, ps, c1, c2) ==
    ThreeDays(Day(kinds[1], titles[1], SubSeq(ps, 1, c1)),
              Day(kinds[2], titles[2], SubSeq(ps, c1 + 1, c2)),
              Day(kinds[3], titles[3], SubSeq(ps, c2 + 1, Len(ps))))

\* ps is cut into three days after positions c1 and c2
IsCut(ps, c1, c2) == 0 <= c1 /\ c1 <= c2 /\ c2 <= Len(ps)

PlainKinds == <<"plain", "plain", "plain">>
UsualTitles == <<TitleDay0, TitleDay1, TitleDay1>>

\* one day with a bad title, no title, or not listing the group
OddDays ==
    { <<PlainKinds, <<TitleBad, TitleDay0, TitleDay0>> >>,
      <<PlainKinds, <<TitleDay1, TitleBad, TitleDay0>> >>,
      << <<"plain", "untitled", "plain">>, UsualTitles>>,
      << <<"untitled", "plain", "plain">>, <<TitleDay0, TitleDay0, TitleDay0>> >>,
      << <<"plain", "othergroup", "plain">>, UsualTitles>>,
      << <<"plain", "plain", "nogroups">>, <<TitleDay1, TitleDay0, TitleDay0>> >> }

\* a value of another type where the code expects a dict, a list or a str
OddShapeDocs ==
    {ThreeDays(Day("plain", TitleDay0, <<Period(Num(10, 0), Num(12, 0))>>),
               Day(k, TitleDay1, <<>>),
               Day("plain", TitleDay1, <<Period(Num(11, 0), Num(13, 0))>>)) :
        k \in {"numtitle", "numgroups", "numperiods", "strperiod", "text"}}
    \cup {Document(s, Schedule(<<>>)) :
            s \in {None, Obj(<<>>), Num(1, 0), Str("x"), Str(City), Arr(<<Str(City)>>),
                   Obj(<< <<City, Arr(<<>>)>> >>), Obj(<< <<City, None>> >>),
                   Obj(<< <<"dnipro", Obj(<<>>)>> >>)}}
    \cup {None, Obj(<<>>), Arr(<<>>), Str("x")}

\* every day well formed but for its periods
IsPlainDoc(d) ==
    \E ps \in PeriodLists(MaxPeriods), c1, c2 \in 0..MaxPeriods :
        IsCut(ps, c1, c2) /\ d = Spread(PlainKinds, UsualTitles, ps, c1, c2)

IsOddDayDoc(d) ==
    \E kt \in OddDays, ps \in PeriodLists(MaxPeriods - 1), c1, c2 \in 0..MaxPeriods :
        IsCut(ps, c1, c2) /\ d = Spread(kt[1], kt[2], ps, c1, c2)

InitBuild ==
    /\ \/ IsPlainDoc(response)
       \/ IsOddDayDoc(response)
       \/ response \in OddShapeDocs
    /\ updated = [exc |-> "none", events |-> <<>>, decoded |-> <<>>]
    /\ ExtractIdle
    /\ FormatIdle
    /\ EntityIdle
    /\ pc = "fetched"

Update ==
    /\ pc = "fetched"
    /\ updated' = async_update_data(response, City, Group)
    /\ pc' = IF updated'.exc = "none" THEN "returned" ELSE "raised"
    /\ UNCHANGED <<response, extractVars, formatVars, entityVars>>

NextBuild == Update

SpecBuild == InitBuild /\ [][NextBuild]_vars

(***************************************************************************)
(* Properties of a build pass.                                             *)
(***************************************************************************)
Returned == pc = "returned"

EventSet(events) == {events[i] : i \in 1..Len(events)}

\* the three conditions under which an accepted interval e suppresses a new one
Suppresses(e, new) ==
    \/ (e.start <= new.start /\ new.start <= e.end)
    \/ (e.start <= new.end /\ new.end <= e.end)
    \/ (new.start <= e.start /\ new.end >= e.end)

\* I holds the positions of the decoded periods P that are accepted: a period
\* is accepted iff no period accepted before it suppresses it
AcceptedPositions(P, I) ==
    \A i \in 1..Len(P) :
        i \in I <=> ~\E j \in I : j < i /\ Suppresses(P[j], P[i])

\* C2: a decoded period is appended iff no interval accepted before it
\* satisfies one of the three overlap conditions; a suppressed period is
\* dropped and the accepted intervals keep their own bounds, so the returned
\* intervals are exactly the accepted periods, each with the bounds decoded.
C2_AppendedIffNoOverlap ==
    Returned =>
        \E I \in SUBSET (1..Len(updated.decoded)) :
            /\ AcceptedPositions(updated.decoded, I)
            /\ EventSet(updated.events) = {updated.decoded[i] : i \in I}
            /\ Len(updated.events) = Cardinality(I)

\* 10:00-12:00 then 11:00-13:00 on the same day: one interval, the first
C2_Witness ==
    /\ Returned
    /\ updated.decoded = <<CalendarEvent(600, 720), CalendarEvent(660, 780)>>
    /\ updated.events = <<CalendarEvent(600, 720)>>

\* some instant t has a.start <= t <= a.end and b.start <= t <= b.end
ShareInstant(a, b) ==
    /\ a.start <= a.end
    /\ b.start <= b.end
    /\ a.start <= b.end
    /\ b.start <= a.end

\* C3: the returned sequence is ordered non-decreasing by start and no two
\* of its intervals share an instant (overlap or touch at a boundary).
C3_SortedAndDisjoint ==
    Returned =>
        \A i, j \in 1..Len(updated.events) :
            i < j =>
                /\ updated.events[i].start <= updated.events[j].start
                /\ ~ShareInstant(updated.events[i], updated.events[j])

\* 12:00-13:00 met before 10:00-11:00 and returned after it, a touching
\* period between them suppressed
C3_Witness ==
    /\ Returned
    /\ Len(updated.decoded) = 3
    /\ updated.decoded[1] = CalendarEvent(720, 780)
    /\ updated.decoded[2] = CalendarEvent(600, 660)
    /\ updated.events = <<CalendarEvent(600, 660), CalendarEvent(720, 780)>>

\* C4: every returned interval has start < end; a period whose decoded end is
\* equal to or earlier than its start is discarded.
C4_StartBeforeEnd ==
    Returned =>
        \A i \in 1..Len(updated.events) :
            updated.events[i].start < updated.events[i].end

\* C7: whatever the document (absent, empty, values of another type at any
\* place), the build pass does not raise; an absent or empty document gives
\* the empty sequence.
C7_NeverRaises ==
    /\ pc # "raised"
    /\ (Returned /\ response \in {None, Obj(<<>>)}) => updated.events = <<>>

(***************************************************************************)
(* Days with a parsing failure, read off the document itself.              *)
(***************************************************************************)
\* the document has the two schedules, each an object listing the city's days
IsListedDoc(d) ==
    /\ d.t = "obj" /\ HasKey(d, "components")
    /\ LET c == GetItem(d, "components")
       IN  /\ c.t = "arr" /\ Len(c.items) = 1 /\ c.items[1].t = "obj"
           /\ \A ty \in {"dailySchedule", "tomorrowSchedule"} :
                 /\ HasKey(c.items[1], ty)
                 /\ LET sch == GetItem(c.items[1], ty)
                    IN  /\ sch.t = "obj" /\ HasKey(sch, City)
                        /\ GetItem(sch, City).t = "obj"

\* the <<key, day>> entries of the city in one schedule of a listed document
DayEntries(d, ty) == GetItem(GetItem(GetItem(d, "components").items[1], ty), City).kv

HourDecodes(v) == v.t = "num" /\ v.h \in 0..23 /\ v.m \in 0..59

PeriodFails(p) ==
    /\ p.t = "obj"
    /\ \/ ~HasKey(p, "start")
       \/ ~HasKey(p, "end")
       \/ ~HourDecodes(GetItem(p, "start"))
       \/ ~HourDecodes(GetItem(p, "end"))

\* the day lists the group and its title or one of its periods fails to parse
MalformedDay(day) ==
    /\ day.t = "obj" /\ HasKey(day, "groups")
    /\ GetItem(day, "groups").t = "obj" /\ HasKey(GetItem(day, "groups"), Group)
    /\ LET listed == GetItem(GetItem(day, "groups"), Group)
       IN  /\ listed.t = "arr"
           /\ \/ ~HasKey(day, "title")
              \/ (GetItem(day, "title").t = "str"
                    /\ GetItem(day, "title").s \notin {TitleDay0, TitleDay1})
              \/ \E i \in 1..Len(listed.items) : PeriodFails(listed.items[i])

WellFormedEntries(entries) == SelectSeq(entries, LAMBDA kv : ~MalformedDay(kv[2]))

HasMalformedDay(d) ==
    \E ty \in {"dailySchedule", "tomorrowSchedule"} :
        \E i \in 1..Len(DayEntries(d, ty)) : MalformedDay(DayEntries(d, ty)[i][2])

\* the document with its malformed days taken out
WithoutMalformedDays(d) ==
    Document(Schedule(WellFormedEntries(DayEntries(d, "dailySchedule"))),
             Schedule(WellFormedEntries(DayEntries(d, "tomorrowSchedule"))))

\* C8: a parsing failure on one day does not abort the build, and every
\* interval the other days produce when the malformed day is not there is
\* still produced.
C8_OtherDaysUnaffected ==
    (pc # "fetched" /\ IsListedDoc(response) /\ HasMalformedDay(response)) =>
        /\ Returned
        /\ EventSet(async_update_data(WithoutMalformedDays(response), City, Group).events)
              \subseteq EventSet(updated.events)

(***************************************************************************)
(* Valid periods, read off the document itself.                            *)
(***************************************************************************)
\* the day has a parseable title and lists the group with a list of periods
ListsGroup(day) ==
    /\ day.t = "obj" /\ HasKey(day, "title") /\ HasKey(day, "groups")
    /\ GetItem(day, "title").t = "str"
    /\ GetItem(day, "title").s \in {TitleDay0, TitleDay1}
    /\ GetItem(day, "groups").t = "obj" /\ HasKey(GetItem(day, "groups"), Group)
    /\ GetItem(GetItem(day, "groups"), Group).t = "arr"

\* a fractional hour between 0.0 and 24.0, both included
IsHour(v) == v.t = "num" /\ v.h \in 0..24 /\ v.m \in 0..59 /\ v.h * 60 + v.m <= MinutesPerDay

\* 0.0 <= start < end <= 24.0
ValidPeriod(p) ==
    /\ p.t = "obj" /\ HasKey(p, "start") /\ HasKey(p, "end")
    /\ IsHour(GetItem(p, "start")) /\ IsHour(GetItem(p, "end"))
    /\ GetItem(p, "start").h * 60 + GetItem(p, "start").m
          < GetItem(p, "end").h * 60 + GetItem(p, "end").m

\* minutes since 01.11.2026 00:00 of the day's date
DayStart(day) == IF GetItem(day, "title").s = TitleDay0 THEN 0 ELSE MinutesPerDay

\* the interval a valid period of the day stands for; 24.0 is the midnight
\* that ends the day
IntervalOf(day, p) ==
    CalendarEvent(DayStart(day) + GetItem(p, "start").h * 60 + GetItem(p, "start").m,
                  DayStart(day) + GetItem(p, "end").h * 60 + GetItem(p, "end").m)

\* the intervals of the valid periods of the days that list the group
ValidIntervals(d) ==
    UNION { UNION { LET day == DayEntries(d, ty)[i][2]
                    IN  IF ListsGroup(day)
                        THEN LET ps == GetItem(GetItem(day, "groups"), Group).items
                             IN  {IntervalOf(day, ps[k]) :
                                    k \in {n \in 1..Len(ps) : ValidPeriod(ps[n])}}
                        ELSE {} :
                    i \in 1..Len(DayEntries(d, ty)) } :
            ty \in {"dailySchedule", "tomorrowSchedule"} }

\* the interval is returned, or a returned interval overlaps or touches it
KeptOrCovered(v, events) ==
    \/ v \in EventSet(events)
    \/ \E e \in EventSet(events) : ShareInstant(e, v)

\* C11: for every day with a parseable title that lists the group, every
\* period with 0.0 <= start < end <= 24.0, one ending at 24.0 and the periods
\* listed after it included, is returned with its own bounds or overlaps or
\* touches a returned interval.
C11_NoValidPeriodLost ==
    (Returned /\ IsListedDoc(response)) =>
        \A v \in ValidIntervals(response) : KeptOrCovered(v, updated.events)

(***************************************************************************)
(* YasnoOutagesCalendar over the coordinator's data. A refresh replaces    *)
(* the event sequence as a whole; a refresh whose build raises leaves the  *)
(* last sequence in place. The clock moves in half hours.                  *)
(***************************************************************************)
STATE_ON == "on"
STATE_OFF == "off"
STATE_NO_SCHEDULE == "no_schedule"
STATE_GRID_ON == "grid_on"
STATE_OUTAGE == "outage"

MaxRefreshPeriods == 2
MaxTicks == 9

RefreshAlphabet ==
    { Period(Num(10, 0), Num(12, 0)),
      Period(Num(12, 0), Num(13, 0)),
      Period(Num(11, 0), Num(11, 0)),
      Period(None, Num(12, 0)) }

RefreshLists == {<<>>} \cup SeqsUpTo(RefreshAlphabet, MaxRefreshPeriods)

\* the first event with start <= now < end
CurrentOutageEndExcluded(events, t) ==
    LET hits == SelectSeq(events, LAMBDA event : event.start <= t /\ t < event.end)
    IN  IF hits = <<>> THEN <<>> ELSE <<hits[1]>>

\* the first event with start <= now <= end, as a list of at most one event
CurrentOutage(events, t) ==
    LET hits == SelectSeq(events, LAMBDA event : event.start <= t /\ t <= event.end)
    IN  IF hits = <<>> THEN <<>> ELSE <<hits[1]>>

\* the state property: [state returned, _internal_state assigned]
state(events, t) ==
    IF events = <<>> THEN [state |-> STATE_ON, internal |-> STATE_NO_SCHEDULE]
    ELSE IF CurrentOutage(events, t) # <<>>
         THEN [state |-> STATE_OFF, internal |-> STATE_OUTAGE]
         ELSE [state |-> STATE_ON, internal |-> STATE_GRID_ON]

\* min(future_events, key=lambda x: x.start): the first of the earliest ones
NextOutage(events, t) ==
    LET future == SelectSeq(events, LAMBDA event : event.start > t)
    IN  IF future = <<>> THEN <<>>
        ELSE <<future[CHOOSE i \in 1..Len(future) :
                        /\ \A j \in 1..Len(future) : future[i].start <= future[j].start
                        /\ \A j \in 1..(i - 1) : future[j].start > future[i].start]>>

\* the extra_state_attributes property; an attribute the dict lacks is <<>>
extra_state_attributes(events, t, internal) ==
    LET current == IF events = <<>> THEN <<>> ELSE CurrentOutage(events, t)
        next == IF events = <<>> THEN <<>> ELSE NextOutage(events, t)
    IN  [ detailed_state |-> internal,
          has_schedule |-> events # <<>>,
          current_outage |-> current,
          minutes_until_power |->
              IF current = <<>> THEN <<>> ELSE <<current[1].end - t>>,
          next_outage |-> next,
          minutes_until_outage |->
              IF next = <<>> THEN <<>> ELSE <<next[1].start - t>>,
          total_outages_scheduled |->
              IF events = <<>> THEN <<>> ELSE <<Len(events)>> ]

\* one test of the comprehension of async_get_events in
\* custom_components/yasno_outages/calendar.py: TRUE, FALSE, or "NameError"
\* when the second operand, which reads the unbound name `end`, is evaluated
EventInWindow(event, start_datetime, end_datetime) ==
    IF start_datetime <= event.start /\ event.start <= end_datetime THEN "TRUE"
    ELSE "NameError"

async_get_events(events, start_datetime, end_datetime) ==
    IF \E i \in 1..Len(events) :
           EventInWindow(events[i], start_datetime, end_datetime) = "NameError"
    THEN [exc |-> "NameError", events |-> <<>>]
    ELSE [exc |-> "none",
          events |-> SelectSeq(events, LAMBDA event :
                        EventInWindow(event, start_datetime, end_datetime) = "TRUE")]

\* async_get_events of the copy in calendar.py at the top of the repository
root_async_get_events(events, start_datetime, end_datetime) ==
    [exc |-> "none",
     events |-> SelectSeq(events, LAMBDA event :
        \/ (start_datetime <= event.start /\ event.start <= end_datetime)
        \/ (start_datetime <= event.end /\ event.end <= end_datetime)
        \/ (event.start <= start_datetime /\ event.end >= end_datetime))]

RefreshDoc(ps, c1, c2) == Spread(PlainKinds, UsualTitles, ps, c1, c2)

ClockStart == 9 * 60 + 30
Windows == {<<690, 840>>, <<480, 540>>, <<600, 660>>, <<630, 690>>, <<540, 2000>>}

\* what _async_update_data gives on the documents a refresh may fetch
RefreshOutcomes ==
    {async_update_data(RefreshDoc(q[1], q[2][1], q[2][2]), City, Group) :
        q \in {q \in RefreshLists \X ((0..MaxRefreshPeriods) \X (0..MaxRefreshPeriods)) :
                 IsCut(q[1], q[2][1], q[2][2])}}

NoRead == [op |-> "none"]

\* after async_config_entry_first_refresh and the construction of the entity
Init ==
    /\ \E r \in RefreshOutcomes :
          /\ r.exc = "none"
          /\ coordinatorData = r.events
    /\ now = ClockStart
    /\ internal_state = STATE_NO_SCHEDULE
    /\ lastRead = NoRead
    /\ ExtractIdle
    /\ FormatIdle
    /\ BuildIdle
    /\ pc = "added"

Refresh ==
    /\ \E r \in RefreshOutcomes :
          /\ r.exc = "none"
          /\ coordinatorData' = r.events
    /\ lastRead' = NoRead
    /\ pc' = "refreshed"
    /\ UNCHANGED <<now, internal_state, extractVars, formatVars, buildVars>>

RefreshFailed ==
    /\ \E r \in RefreshOutcomes : r.exc # "none"
    /\ lastRead' = NoRead
    /\ pc' = "refresh failed"
    /\ UNCHANGED <<coordinatorData, now, internal_state,
                   extractVars, formatVars, buildVars>>

Tick ==
    /\ now + 30 <= ClockStart + 30 * MaxTicks
    /\ now' = now + 30
    /\ lastRead' = NoRead
    /\ pc' = "ticked"
    /\ UNCHANGED <<coordinatorData, internal_state, extractVars, formatVars, buildVars>>

ReadState ==
    /\ internal_state' = state(coordinatorData, now).internal
    /\ lastRead' = [op |-> "state", state |-> state(coordinatorData, now).state]
    /\ pc' = "state"
    /\ UNCHANGED <<coordinatorData, now, extractVars, formatVars, buildVars>>

ReadAttributes ==
    /\ lastRead' = [op |-> "attributes",
                    attributes |-> extra_state_attributes(coordinatorData, now, internal_state)]
    /\ pc' = "attributes"
    /\ UNCHANGED <<coordinatorData, now, internal_state, extractVars, formatVars, buildVars>>

GetEvents ==
    /\ \E w \in Windows :
          lastRead' = [op |-> "events", window |-> w,
                       got |-> async_get_events(coordinatorData, w[1], w[2])]
    /\ pc' = "events"
    /\ UNCHANGED <<coordinatorData, now, internal_state, extractVars, formatVars, buildVars>>

RootGetEvents ==
    /\ \E w \in Windows :
          lastRead' = [op |-> "events", window |-> w,
                       got |-> root_async_get_events(coordinatorData, w[1], w[2])]
    /\ pc' = "root events"
    /\ UNCHANGED <<coordinatorData, now, internal_state, extractVars, formatVars, buildVars>>

Next ==
    \/ Refresh
    \/ RefreshFailed
    \/ Tick
    \/ ReadState
    \/ ReadAttributes
    \/ GetEvents
    \/ RootGetEvents

Spec == Init /\ [][Next]_vars

(***************************************************************************)
(* Properties of the entity.                                               *)
(***************************************************************************)
\* the intervals a range query is to return: start in the window, end in the
\* window, or the window inside the interval, boundaries included
OverlapsWindow(event, windowStart, windowEnd) ==
    \/ (windowStart <= event.start /\ event.start <= windowEnd)
    \/ (windowStart <= event.end /\ event.end <= windowEnd)
    \/ (event.start <= windowStart /\ event.end >= windowEnd)

\* C5: async_get_events returns, without raising, exactly the intervals of
\* the current sequence that overlap the window, in sequence order.
C5_RangeQuery ==
    pc \in {"events", "root events"} =>
        /\ lastRead.got.exc = "none"
        /\ lastRead.got.events =
              SelectSeq(coordinatorData, LAMBDA event :
                  OverlapsWindow(event, lastRead.window[1], lastRead.window[2]))

\* GridStatus at an instant over an interval sequence
StatusAt(events, t) ==
    IF Len(events) = 0 THEN "NoSchedule"
    ELSE IF \E i \in 1..Len(events) : events[i].start <= t /\ t <= events[i].end
         THEN "Outage"
         ELSE "On"

DetailedState(status) ==
    CASE status = "NoSchedule" -> STATE_NO_SCHEDULE
      [] status = "Outage" -> STATE_OUTAGE
      [] status = "On" -> STATE_GRID_ON

\* C6: the state property computes NoSchedule iff the sequence is empty,
\* otherwise Outage iff some interval has start <= now <= end, otherwise On;
\* the state exposed is off in the Outage case and on in the other two.
C6_StatusAtNow ==
    pc = "state" =>
        /\ internal_state = DetailedState(StatusAt(coordinatorData, now))
        /\ lastRead.state =
              (IF StatusAt(coordinatorData, now) = "Outage" THEN STATE_OFF ELSE STATE_ON)

\* the state read at 12:00, the very end of an outage
C6_Witness ==
    /\ pc = "state"
    /\ now = 720
    /\ \E i \in 1..Len(coordinatorData) : coordinatorData[i].end = 720
    /\ internal_state = STATE_OUTAGE
    /\ lastRead.state = STATE_OFF

\* C10: whenever extra_state_attributes is read, its detailed_state is the
\* status of the current sequence at the current instant.
C10_DetailedStateCurrent ==
    pc = "attributes" =>
        lastRead.attributes.detailed_state = DetailedState(StatusAt(coordinatorData, now))

====
